---- MODULE Spec2Model ----
(***************************************************************************)
(* The threaded IEC104 connector scaffold, iecConnector(Connector, Thread), *)
(* of thingsboard_gateway/extensions/iec104/iec104_connector.py.            *)
(*                                                                         *)
(* One worker thread executes run(); caller threads of the gateway invoke   *)
(* open(), close(), server_side_rpc_handler() and on_attributes_update().   *)
(* Every Python statement that reads or writes a shared attribute is one    *)
(* step; statements on locals are folded into the neighbouring step.        *)
(* Wall-clock time appears only where the code bounds a wait by it: the     *)
(* join(timeout=5) of close() counts Tick steps.  The sleeps of run() give  *)
(* a lower bound on a step's duration only, so the worker's steps are       *)
(* untimed.                                                                 *)
(*                                                                         *)
(* The non-threaded iecConnector(Connector) of                              *)
(* thingsboard_gateway/connectors/iec104/iec104_connector.py is a second,   *)
(* independent object; its calls are atomic and it has its own              *)
(* specification, ExtSpec.                                                  *)
(***************************************************************************)
EXTENDS Integers, Sequences, FiniteSets, TLC

(* ------------------------------ bounds --------------------------------- *)

\* request ids offered to the RPC handler are 0 .. MaxRequestId (or absent)
MaxRequestId == 1
\* point addresses carried in the RPC params are 1 .. NumPoints
NumPoints == 2
\* calls made on the non-threaded connector, one after the other
MaxCalls == 4

\* the gateway threads that call into the connector
Callers == {"c1", "c2"}

(* --------------------------- program constants ------------------------- *)

\* close(): self.join(timeout=5)
JoinTimeout == 5
\* run(): self._config.get("pollingInterval", 5)
DefaultPollingInterval == 5

\* dict.get(key, default); a dict is a function on the keys it holds
Get(d, key, default) == IF key \in DOMAIN d THEN d[key] ELSE default

\* the config dicts offered to the constructor: without "pollingInterval",
\* with a valid one, with a negative one
Configs == {<<>>, [pollingInterval |-> 1], [pollingInterval |-> -1]}

Devices == {"dev1"}
Methods == {"setValue"}
Points == 1 .. NumPoints
RequestIds == 0 .. MaxRequestId

\* the dicts handed to server_side_rpc_handler(), with and without an 'id'
Contents ==
    [device : Devices, id : RequestIds, method : Methods, params : Points]
        \cup [device : Devices, method : Methods, params : Points]

NoCall == [call |-> "none"]

VARIABLES
    _connected,     \* self._connected
    _stopped,       \* self._stopped
    _config,        \* self._config, reduced to its "pollingInterval" entry
    wpc,            \* position of the worker thread in run()
    cpc,            \* position of each caller thread
    elapsed,        \* seconds a caller has waited in join(timeout=5)
    afterOpen,      \* the caller's close() began after an open() had returned
    rpc,            \* locals of the caller's running server_side_rpc_handler()
    opens,          \* open() calls begun so far (saturates at 2)
    opened,         \* an open() call has returned
    closeReturns,   \* close() calls begun after an open() that returned (saturates at 2)
    ext_connected,  \* self._connected of the non-threaded connector
    ext_calls       \* the calls made on the non-threaded connector, in order

vars == <<_connected, _stopped, _config, wpc, cpc, elapsed, afterOpen, rpc,
          opens, opened, closeReturns, ext_connected, ext_calls>>

\* the non-threaded connector of connectors/iec104/iec104_connector.py, a
\* second object, which shares nothing with the threaded one
ext == <<ext_connected, ext_calls>>

lifecycle == <<_connected, _stopped, _config, wpc>>
history == <<opens, opened, closeReturns>>

(* ------------------------------ helpers -------------------------------- *)

\* Thread.is_alive(): started and run() not yet finished
IsAlive(w) == w \notin {"unstarted", "done"}

\* self._config.get("pollingInterval", 5)
PollingInterval(config) == Get(config, "pollingInterval", DefaultPollingInterval)

\* time.sleep(secs) raises ValueError for a negative length
SleepRaises(secs) == secs < 0

LoopCondition_NeverStops(stopped) == TRUE
\* run(): while not self._stopped
LoopCondition(stopped) == ~stopped

JoinReturns_NoTimeout(alive, waited) == ~alive
\* close(): self.join(timeout=5) returns once the thread has finished or the
\* timeout has expired
JoinReturns(alive, waited) == ~alive \/ waited >= JoinTimeout

WarnCondition_Never(alive) == FALSE
\* close(): the second `if self.is_alive():` that guards log.warning
WarnCondition(alive) == alive

\* server_side_rpc_handler(): response_payload; the message interpolates the
\* method and the device name
ResponsePayload(method, device) ==
    [status |-> "success", method |-> method, device |-> device]

\* server_side_rpc_handler(): request_id = content.get('id') and then
\* `if request_id:` (Python truthiness: None and 0 are false)
ShouldReply(content) == "id" \in DOMAIN content /\ content.id # 0

Sat(n) == IF n >= 2 THEN 2 ELSE n + 1

(* ------------------------------- Init ---------------------------------- *)

\* __init__
Init ==
    /\ _connected = FALSE
    /\ _stopped = FALSE
    /\ _config \in Configs
    /\ wpc = "unstarted"
    /\ cpc = [c \in Callers |-> "idle"]
    /\ elapsed = [c \in Callers |-> 0]
    /\ afterOpen = [c \in Callers |-> FALSE]
    /\ rpc = [c \in Callers |-> NoCall]
    /\ opens = 0
    /\ opened = FALSE
    /\ closeReturns = 0
    /\ ext_connected = FALSE
    /\ ext_calls = <<>>

(* ------------------------------- run() --------------------------------- *)

RunConnect_FlagNotSet ==
    /\ wpc = "connecting"
    /\ wpc' = "loop"
    /\ UNCHANGED <<ext, _connected, _stopped, _config, cpc, elapsed, afterOpen, rpc, history>>

\* run(): time.sleep(1) is over; self._connected = True
RunConnect ==
    /\ wpc = "connecting"
    /\ _connected' = TRUE
    /\ wpc' = "loop"
    /\ UNCHANGED <<ext, _stopped, _config, cpc, elapsed, afterOpen, rpc, history>>

\* run(): the loop test; a true test enters the body, whose time.sleep raises
\* on a negative pollingInterval and so ends the thread
RunLoopTest ==
    /\ wpc = "loop"
    /\ wpc' = IF LoopCondition(_stopped)
                THEN IF SleepRaises(PollingInterval(_config)) THEN "done" ELSE "polling"
                ELSE "done"
    /\ UNCHANGED <<ext, _connected, _stopped, _config, cpc, elapsed, afterOpen, rpc, history>>

\* run(): time.sleep(pollingInterval) is over; back to the loop test
RunWake ==
    /\ wpc = "polling"
    /\ wpc' = "loop"
    /\ UNCHANGED <<ext, _connected, _stopped, _config, cpc, elapsed, afterOpen, rpc, history>>

Worker == RunConnect \/ RunLoopTest \/ RunWake

(* ------------------------------- open() -------------------------------- *)

\* open(): self._stopped = False
OpenBegin(c) ==
    /\ cpc[c] = "idle"
    /\ _stopped' = FALSE
    /\ opens' = Sat(opens)
    /\ cpc' = [cpc EXCEPT ![c] = "open_start"]
    /\ UNCHANGED <<ext, _connected, _config, wpc, elapsed, afterOpen, rpc, opened, closeReturns>>

\* open(): self.start() on a thread not started yet; run() begins with
\* time.sleep(1); open() returns
OpenStart(c) ==
    /\ cpc[c] = "open_start"
    /\ wpc = "unstarted"
    /\ wpc' = "connecting"
    /\ opened' = TRUE
    /\ cpc' = [cpc EXCEPT ![c] = "idle"]
    /\ UNCHANGED <<ext, _connected, _stopped, _config, elapsed, afterOpen, rpc, opens, closeReturns>>

\* open(): self.start() on a thread started before raises RuntimeError
\* ("threads can only be started once"); the exception leaves open()
OpenStartRaises(c) ==
    /\ cpc[c] = "open_start"
    /\ wpc # "unstarted"
    /\ cpc' = [cpc EXCEPT ![c] = "idle"]
    /\ UNCHANGED <<ext, lifecycle, elapsed, afterOpen, rpc, history>>

(* ------------------------------- close() ------------------------------- *)

\* close(): self._stopped = True
CloseBegin(c) ==
    /\ cpc[c] = "idle"
    /\ _stopped' = TRUE
    /\ afterOpen' = [afterOpen EXCEPT ![c] = opened]
    /\ cpc' = [cpc EXCEPT ![c] = "close_disconnect"]
    /\ UNCHANGED <<ext, _connected, _config, wpc, elapsed, rpc, history>>

\* close(): self._connected = False
CloseDisconnect(c) ==
    /\ cpc[c] = "close_disconnect"
    /\ _connected' = FALSE
    /\ cpc' = [cpc EXCEPT ![c] = "close_alive"]
    /\ UNCHANGED <<ext, _stopped, _config, wpc, elapsed, afterOpen, rpc, history>>

\* close(): if self.is_alive(): -> join, else straight to the final log lines
CloseAlive(c) ==
    /\ cpc[c] = "close_alive"
    /\ cpc' = [cpc EXCEPT ![c] = IF IsAlive(wpc) THEN "close_join" ELSE "close_end"]
    /\ elapsed' = [elapsed EXCEPT ![c] = 0]
    /\ UNCHANGED <<ext, lifecycle, afterOpen, rpc, history>>

\* close(): self.join(timeout=5) returns
CloseJoin(c) ==
    /\ cpc[c] = "close_join"
    /\ JoinReturns(IsAlive(wpc), elapsed[c])
    /\ cpc' = [cpc EXCEPT ![c] = "close_recheck"]
    /\ elapsed' = [elapsed EXCEPT ![c] = 0]
    /\ UNCHANGED <<ext, lifecycle, afterOpen, rpc, history>>

\* close(): the inner `if self.is_alive():`
CloseRecheck(c) ==
    /\ cpc[c] = "close_recheck"
    /\ cpc' = [cpc EXCEPT ![c] = IF WarnCondition(IsAlive(wpc)) THEN "close_warn"
                                                                ELSE "close_end"]
    /\ UNCHANGED <<ext, lifecycle, elapsed, afterOpen, rpc, history>>

\* close(): self.log.warning("... did not terminate gracefully within 5 seconds.")
CloseWarn(c) ==
    /\ cpc[c] = "close_warn"
    /\ cpc' = [cpc EXCEPT ![c] = "close_end"]
    /\ UNCHANGED <<ext, lifecycle, elapsed, afterOpen, rpc, history>>

\* close(): the final log.info, log.stop() and the return
CloseReturn(c) ==
    /\ cpc[c] = "close_end"
    /\ cpc' = [cpc EXCEPT ![c] = "idle"]
    /\ closeReturns' = IF afterOpen[c] THEN Sat(closeReturns) ELSE closeReturns
    /\ afterOpen' = [afterOpen EXCEPT ![c] = FALSE]
    /\ UNCHANGED <<ext, lifecycle, elapsed, rpc, opens, opened>>

\* one second passes for every caller blocked in join(timeout=5)
Tick ==
    /\ \E c \in Callers : cpc[c] = "close_join" /\ elapsed[c] < JoinTimeout
    /\ elapsed' = [c \in Callers |->
                     IF cpc[c] = "close_join" /\ elapsed[c] < JoinTimeout
                       THEN elapsed[c] + 1 ELSE elapsed[c]]
    /\ UNCHANGED <<ext, lifecycle, cpc, afterOpen, rpc, history>>

(* ----------------------- server_side_rpc_handler() --------------------- *)

\* server_side_rpc_handler(): the content.get(...) reads and response_payload
RpcBegin(c, content) ==
    /\ cpc[c] = "idle"
    /\ rpc' = [rpc EXCEPT ![c] =
                 [call |-> "rpc", content |-> content,
                  response_payload |-> ResponsePayload(content.method, content.device),
                  sent |-> <<>>]]
    /\ cpc' = [cpc EXCEPT ![c] = "rpc_reply"]
    /\ UNCHANGED <<ext, lifecycle, elapsed, afterOpen, history>>

\* server_side_rpc_handler(): if request_id: self.__gateway.send_rpc_reply(...)
RpcReply(c) ==
    /\ cpc[c] = "rpc_reply"
    /\ rpc' = [rpc EXCEPT ![c].sent =
                 IF ShouldReply(rpc[c].content)
                   THEN Append(@, [device |-> rpc[c].content.device,
                                   id |-> rpc[c].content.id,
                                   payload |-> rpc[c].response_payload])
                   ELSE @]
    /\ cpc' = [cpc EXCEPT ![c] = "rpc_return"]
    /\ UNCHANGED <<ext, lifecycle, elapsed, afterOpen, history>>

\* server_side_rpc_handler(): return response_payload
RpcReturn(c) ==
    /\ cpc[c] = "rpc_return"
    /\ rpc' = [rpc EXCEPT ![c] = NoCall]
    /\ cpc' = [cpc EXCEPT ![c] = "idle"]
    /\ UNCHANGED <<ext, lifecycle, elapsed, afterOpen, history>>

(* ------------------------- on_attributes_update() ---------------------- *)

AttributesBegin_Disconnects(c) ==
    /\ cpc[c] = "idle"
    /\ cpc' = [cpc EXCEPT ![c] = "attributes_log"]
    /\ _connected' = FALSE
    /\ UNCHANGED <<ext, _stopped, _config, wpc, elapsed, afterOpen, rpc, history>>

\* on_attributes_update(): the content.get(...) reads and the log lines
AttributesBegin(c) ==
    /\ cpc[c] = "idle"
    /\ cpc' = [cpc EXCEPT ![c] = "attributes_log"]
    /\ UNCHANGED <<ext, lifecycle, elapsed, afterOpen, rpc, history>>

\* on_attributes_update(): falls off the end
AttributesReturn(c) ==
    /\ cpc[c] = "attributes_log"
    /\ cpc' = [cpc EXCEPT ![c] = "idle"]
    /\ UNCHANGED <<ext, lifecycle, elapsed, afterOpen, rpc, history>>

(* ------------------------------ the system ----------------------------- *)

CloseStep(c) ==
    \/ CloseDisconnect(c)
    \/ CloseAlive(c)
    \/ CloseJoin(c)
    \/ CloseRecheck(c)
    \/ CloseWarn(c)
    \/ CloseReturn(c)

Next ==
    \/ RunConnect
    \/ RunLoopTest
    \/ RunWake
    \/ Tick
    \/ \E c \in Callers : OpenBegin(c)
    \/ \E c \in Callers : OpenStart(c)
    \/ \E c \in Callers : OpenStartRaises(c)
    \/ \E c \in Callers : CloseBegin(c)
    \/ \E c \in Callers : CloseStep(c)
    \/ \E c \in Callers, content \in Contents : RpcBegin(c, content)
    \/ \E c \in Callers : RpcReply(c)
    \/ \E c \in Callers : RpcReturn(c)
    \/ \E c \in Callers : AttributesBegin(c)
    \/ \E c \in Callers : AttributesReturn(c)

Spec == Init /\ [][Next]_vars

\* Every started thread keeps being scheduled: the worker takes its next step,
\* a caller inside close() takes its next step, and time passes.
LiveSpec ==
    /\ Init
    /\ [][Next]_vars
    /\ WF_vars(Worker)
    /\ WF_vars(Tick)
    /\ \A c \in Callers : WF_vars(CloseStep(c))

(* ----------------------- the non-threaded connector -------------------- *)

threaded == <<_connected, _stopped, _config, wpc, cpc, elapsed, afterOpen, rpc,
              opens, opened, closeReturns>>

ExtOpen_NoEffect ==
    /\ Len(ext_calls) < MaxCalls
    /\ ext_calls' = Append(ext_calls, "open")
    /\ UNCHANGED <<ext_connected, threaded>>

\* open(): self._connected = True
ExtOpen ==
    /\ Len(ext_calls) < MaxCalls
    /\ ext_connected' = TRUE
    /\ ext_calls' = Append(ext_calls, "open")
    /\ UNCHANGED threaded

\* close(): self._connected = False
ExtClose ==
    /\ Len(ext_calls) < MaxCalls
    /\ ext_connected' = FALSE
    /\ ext_calls' = Append(ext_calls, "close")
    /\ UNCHANGED threaded

\* get_name(): return self._connector_name
ExtGetName ==
    /\ Len(ext_calls) < MaxCalls
    /\ ext_calls' = Append(ext_calls, "get_name")
    /\ UNCHANGED <<ext_connected, threaded>>

\* on_attributes_update(): logs the content
ExtAttributesUpdate ==
    /\ Len(ext_calls) < MaxCalls
    /\ ext_calls' = Append(ext_calls, "on_attributes_update")
    /\ UNCHANGED <<ext_connected, threaded>>

ExtNext ==
    \/ ExtOpen
    \/ ExtClose
    \/ ExtGetName
    \/ ExtAttributesUpdate

\* the non-threaded connector alone, called from one thread
ExtSpec == Init /\ [][ExtNext]_vars

TypeOK ==
    /\ _connected \in BOOLEAN
    /\ _stopped \in BOOLEAN
    /\ _config \in Configs
    /\ wpc \in {"unstarted", "connecting", "loop", "polling", "done"}
    /\ elapsed \in [Callers -> 0 .. JoinTimeout]
    /\ afterOpen \in [Callers -> BOOLEAN]
    /\ opens \in 0 .. 2
    /\ opened \in BOOLEAN
    /\ closeReturns \in 0 .. 2
    /\ ext_connected \in BOOLEAN
    /\ Len(ext_calls) <= MaxCalls

(* ------------------------------- claims -------------------------------- *)

InClose(c) ==
    cpc[c] \in {"close_disconnect", "close_alive", "close_join", "close_recheck",
                "close_warn", "close_end"}

InRpc(c) == cpc[c] \in {"rpc_reply", "rpc_return"}

ValidPolling == ~SleepRaises(PollingInterval(_config))

\* C1: once a close() that was called after open() returned has itself
\* returned, is_connected() is false, in every later state (stated for a
\* valid polling interval, so that the worker ends by the stop flag alone).
ClosedIsDisconnected == (ValidPolling /\ closeReturns >= 1) => ~_connected

\* C2: when close() has been called after open() returned and has set the
\* stop flag, the worker eventually leaves run(), unless open() is called again.
StopFlagObserved ==
    (\E c \in Callers : cpc[c] = "close_disconnect" /\ afterOpen[c] /\ opens <= 1)
        ~> (wpc = "done" \/ opens >= 2)

\* C2 witness: a close() called after the only open() has returned, and the
\* worker, which was polling with a valid interval, has left run().
StopFlagObservedWitness ==
    /\ closeReturns >= 1
    /\ opens = 1
    /\ ValidPolling
    /\ _stopped
    /\ wpc = "done"

\* C3: every close() call returns, whatever the worker does; the warning is
\* logged exactly when the worker is still alive at the test after the join,
\* and only there.
CloseAlwaysReturns ==
    /\ [][\A c \in Callers :
            /\ (cpc[c] = "close_recheck" /\ cpc'[c] # "close_recheck")
                  => (cpc'[c] = "close_warn" <=> IsAlive(wpc))
            /\ (cpc[c] # "close_warn" /\ cpc'[c] = "close_warn")
                  => cpc[c] = "close_recheck"]_vars
    /\ \A c \in Callers : InClose(c) ~> (cpc[c] = "idle")

\* C3 witness: the join timed out and the caller logs the warning while the
\* worker is still running.
CloseAlwaysReturnsWitness ==
    \E c \in Callers : cpc[c] = "close_warn" /\ IsAlive(wpc) /\ ~_stopped

\* C4: after two close() calls have returned, whether one after the other or
\* overlapping, with no open() call after the first open(), the state is that
\* of a single close(): the stop flag is set and is_connected() is false.
CloseTwiceSameState ==
    (ValidPolling /\ closeReturns >= 2 /\ opens <= 1) => (_stopped /\ ~_connected)

\* C5: an RPC request taken up while is_connected() is false gets a
\* NotConnected result, never a success.
RpcFailsWhenNotConnected ==
    [][\A c \in Callers :
         (cpc[c] = "idle" /\ cpc'[c] = "rpc_reply" /\ ~_connected)
             => rpc'[c].response_payload.status = "NotConnected"]_vars

\* C6: is_connected() is true only while the worker is in its main loop
\* (the scaffold's DataTransfer), for a valid polling interval and outside
\* a running close().
ConnectedOnlyInMainLoop ==
    (ValidPolling /\ _connected /\ \A c \in Callers : ~InClose(c))
        => wpc \in {"loop", "polling"}

\* C7: only the worker thread writes the connected flag: a step that changes
\* it moves no caller thread.
SingleWriter == [][_connected' # _connected => cpc' = cpc]_vars

\* C8: two requests for the same point of the same device that are in the
\* handler at the same time are not both accepted.
OneCommandPerPoint ==
    \A c, d \in Callers :
        (/\ c # d
         /\ InRpc(c)
         /\ InRpc(d)
         /\ rpc[c].content.device = rpc[d].content.device
         /\ rpc[c].content.params = rpc[d].content.params)
            => ~(/\ rpc[c].response_payload.status = "success"
                 /\ rpc[d].response_payload.status = "success")

\* C10: when the handler returns for a request that carries an 'id', it has
\* sent exactly one reply, for that device and id, with the payload it returns.
OneReplyPerRequestId ==
    \A c \in Callers :
        (cpc[c] = "rpc_return" /\ "id" \in DOMAIN rpc[c].content)
            => rpc[c].sent = <<[device |-> rpc[c].content.device,
                                id |-> rpc[c].content.id,
                                payload |-> rpc[c].response_payload]>>

\* C11: is_connected() is false as long as open() has not been called; if
\* close() is never called, then once open() has started the worker,
\* is_connected() becomes true and stays true from some point on.
EventuallyConnected ==
    /\ [](opens = 0 => ~_connected)
    /\ ([](\A c \in Callers : ~InClose(c))) => (opened ~> [](_connected))

\* C11 witness: the only open() has returned, close() was not called after it,
\* and the worker is in its main loop with is_connected() true.
EventuallyConnectedWitness ==
    /\ opens = 1
    /\ opened
    /\ closeReturns = 0
    /\ \A c \in Callers : ~InClose(c)
    /\ ~_stopped
    /\ wpc = "polling"
    /\ _connected

\* the open()/close() calls among a sequence of calls, in order
RECURSIVE OpenCloseCalls(_)
OpenCloseCalls(calls) ==
    IF calls = <<>> THEN <<>>
    ELSE LET rest == OpenCloseCalls(Tail(calls))
         IN  IF Head(calls) \in {"open", "close"} THEN <<Head(calls)>> \o rest ELSE rest

LastIsOpen(calls) ==
    LET oc == OpenCloseCalls(calls)
    IN  oc # <<>> /\ oc[Len(oc)] = "open"

\* C12: after any sequence of open(), close(), get_name() and
\* on_attributes_update() calls on the non-threaded connector, is_connected()
\* is true exactly when the last open()/close() call made was open(); it is
\* false when none was made.
ExtConnectedIffLastOpen == ext_connected <=> LastIsOpen(ext_calls)

\* C12 witness: open(), then close(), then open(), then a call that is
\* neither, and is_connected() is true.
ExtConnectedIffLastOpenWitness ==
    /\ ext_calls = <<"open", "close", "open", "on_attributes_update">>
    /\ ext_connected

\* a step of caller c inside server_side_rpc_handler(), its first included
RpcStepOf(c) ==
    /\ cpc'[c] # cpc[c]
    /\ (cpc[c] \in {"rpc_reply", "rpc_return"} \/ cpc'[c] = "rpc_reply")

\* a step of caller c inside on_attributes_update(), its first included
AttributesStepOf(c) ==
    /\ cpc'[c] # cpc[c]
    /\ (cpc[c] = "attributes_log" \/ cpc'[c] = "attributes_log")

\* C13: no step of server_side_rpc_handler() or of on_attributes_update()
\* changes the connected flag, the stop flag, the configuration or whether the
\* worker thread is alive, for any content; and no step of
\* on_attributes_update() sends a reply to the gateway.
HandlersKeepLifecycle ==
    [][\A c \in Callers :
         /\ (RpcStepOf(c) \/ AttributesStepOf(c))
               => /\ _connected' = _connected
                  /\ _stopped' = _stopped
                  /\ _config' = _config
                  /\ IsAlive(wpc') = IsAlive(wpc)
         /\ AttributesStepOf(c)
               => \A d \in Callers :
                      rpc'[d] # NoCall /\ rpc[d] # NoCall => rpc'[d].sent = rpc[d].sent]_vars

\* C13 witness: with the connector connected and its worker running, one
\* caller has been through the RPC handler's reply and another is inside
\* on_attributes_update().
HandlersKeepLifecycleWitness ==
    \E c, d \in Callers :
        /\ cpc[c] = "rpc_return"
        /\ rpc[c].sent # <<>>
        /\ cpc[d] = "attributes_log"
        /\ _connected
        /\ ~_stopped
        /\ IsAlive(wpc)

====
